---- MODULE Spec2Model ----
(***************************************************************************)
(* Model of kicad/pcbnew/board.py: the Board wrapper around a native       *)
(* pcbnew BOARD and its _ModuleList view (Board.modules).                  *)
(*                                                                         *)
(* The native BOARD is held in `obj` as three lists (modules, tracks,      *)
(* drawings).  Where BOARD.Add places an item inside its list is decided   *)
(* by the engine, not by board.py, so the position is a free choice here.  *)
(* Lengths in millimetres are held as integer thousandths of a millimetre. *)
(***************************************************************************)
EXTENDS Integers, Sequences, FiniteSets, TLC

VARIABLES obj,       \* Board._obj: the native BOARD (modules, tracks, drawings)
          settings,  \* the native BOARD's design settings, in internal units
          nextId,    \* identity of the next native MODULE object created
          its,       \* the live generators made by _ModuleList.__iter__
          nVias,     \* number of add_via calls made so far
          last,      \* the last call made on the Board and what it returned
          prev       \* Board._obj as it was when that call started

vars == <<obj, settings, nextId, its, nVias, last, prev>>

----------------------------------------------------------------------------
(* Bounds *)

MaxModules == 3
MaxItems == 1
MaxTrackItems == 2
MaxViaItems == 3
MaxCoords == 3

Refs == {"R1", "C1"}
Keys == Refs \cup {"Q1"}
Points == {1, 2}
CuLayers == {"F.Cu", "B.Cu"}
Iters == {1, 2}

----------------------------------------------------------------------------
(* Python values *)

\* None, and a number n, as Python values
None == [kind |-> "None"]
Num(n) == [kind |-> "number", v |-> n]

\* truth value of a Python value: None and 0 are false, objects are true
Truthy(a) == a # None /\ ~(a.kind = "number" /\ a.v = 0)

\* Python's `a or b`: a when a is true, b otherwise
Or(a, b) == IF Truthy(a) THEN a ELSE b

DEFAULT_UNIT_IUS == 1000000

----------------------------------------------------------------------------
(* The native BOARD *)

BOARD == [modules |-> <<>>, tracks |-> <<>>, drawings |-> <<>>]

InsertAt(s, pos, x) == SubSeq(s, 1, pos) \o <<x>> \o SubSeq(s, pos + 1, Len(s))

ListOf(item) ==
    IF item.kind = "MODULE" THEN "modules"
    ELSE IF item.kind \in {"TRACK", "VIA"} THEN "tracks"
    ELSE "drawings"

\* BOARD.Add: the item goes into the list of its kind, at the engine's position
Add(b, item, pos) ==
    [b EXCEPT ![ListOf(item)] = InsertAt(@, pos, item)]

\* every BOARD that Add(item) can produce from b
AddResults(b, item) ==
    {Add(b, item, pos) : pos \in 0..Len(b[ListOf(item)])}

RECURSIVE FindFrom(_, _, _)
FindFrom(mods, key, i) ==
    IF i > Len(mods) THEN None
    ELSE IF mods[i].ref = key THEN mods[i]
    ELSE FindFrom(mods, key, i + 1)

\* BOARD.FindModuleByReference: the first module of the list with that reference
FindModuleByReference(b, key) == FindFrom(b.modules, key, 1)

GetModules(b) == b.modules
GetTracks(b) == b.tracks
GetCount(list) == Len(list)

----------------------------------------------------------------------------
(* Wrappers *)

Module_wrap(m) == [type |-> "Module", native_obj |-> m]
Via_wrap(t) == [type |-> "Via", native_obj |-> t]
reference(w) == w.native_obj.ref

----------------------------------------------------------------------------
(* _ModuleList *)

\* __getitem__ that hands back None where it should raise
ModuleList_getitem_quiet(b, key) ==
    LET found == FindModuleByReference(b, key)
    IN  IF Truthy(found)
        THEN [raised |-> "", value |-> Module_wrap(found)]
        ELSE [raised |-> "", value |-> None]

\* __getitem__ that wraps the head of the module list, whatever the key
ModuleList_getitem_head(b, key) ==
    LET found == FindModuleByReference(b, key)
    IN  IF Truthy(found)
        THEN [raised |-> "", value |-> Module_wrap(GetModules(b)[1])]
        ELSE [raised |-> "KeyError", value |-> None]

ModuleList_getitem(b, key) ==
    LET found == FindModuleByReference(b, key)
    IN  IF Truthy(found)
        THEN [raised |-> "", value |-> Module_wrap(found)]
        ELSE [raised |-> "KeyError", value |-> None]

\* __len__ that counts the references, as a mapping counts its keys
ModuleList_len_keys(b) ==
    Cardinality({GetModules(b)[i].ref : i \in 1..Len(GetModules(b))})

\* __len__ that counts every item of the board
ModuleList_len_all(b) ==
    GetCount(GetModules(b)) + Len(b.tracks) + Len(b.drawings)

ModuleList_len(b) == GetCount(GetModules(b))

\* moduleByRef that raises like modules[ref]
moduleByRef_raising(b, ref) ==
    LET found == FindModuleByReference(b, ref)
    IN  IF Truthy(found)
        THEN [raised |-> "", value |-> Module_wrap(found)]
        ELSE [raised |-> "KeyError", value |-> None]

moduleByRef(b, ref) ==
    LET found == FindModuleByReference(b, ref)
    IN  IF Truthy(found)
        THEN [raised |-> "", value |-> Module_wrap(found)]
        ELSE [raised |-> "", value |-> None]

\* one step of the generator made by __iter__: the node it reads next is the
\* head of the module list on the first step and the successor of the node
\* it yielded last afterwards; at the end of the list the generator stops.
\* `out` is what the generator has yielded so far.
IndexOfId(mods, id) == CHOOSE i \in 1..Len(mods) : mods[i].id = id

\* a generator that starts at the second node of the list
NextNode_skip(b, it) ==
    LET mods == GetModules(b)
        i == IF it.st = "new" THEN 2 ELSE IndexOfId(mods, it.at) + 1
    IN  IF i > Len(mods) THEN None ELSE mods[i]

NextNode(b, it) ==
    LET mods == GetModules(b)
        i == IF it.st = "new" THEN 1 ELSE IndexOfId(mods, it.at) + 1
    IN  IF i > Len(mods) THEN None ELSE mods[i]

ModuleList_iter_next(b, it) ==
    LET m == NextNode(b, it)
    IN  IF m = None
        THEN [it EXCEPT !.st = "done"]
        ELSE [it EXCEPT !.st = "running", !.at = m.id,
                        !.out = Append(@, Module_wrap(m))]

\* __iter__ that hands out one generator kept on the list: once a run has
\* exhausted it, every later run yields nothing
ModuleList_iter_shared ==
    IF \E j \in Iters : its[j].st = "done"
    THEN [st |-> "done", at |-> 0, out |-> <<>>]
    ELSE [st |-> "new", at |-> 0, out |-> <<>>]

\* the generator object returned by __iter__, before its first step
ModuleList_iter == [st |-> "new", at |-> 0, out |-> <<>>]

NoIter == [st |-> "none", at |-> 0, out |-> <<>>]

\* a generator that was reading the list when the list changed: what it
\* yields from then on is the engine's business and is not followed
StaleIter == [st |-> "stale", at |-> 0, out |-> <<>>]

----------------------------------------------------------------------------
(* Board *)

\* the constructors of the wrapped items; none but Module registers the item
Module(id, ref) == [kind |-> "MODULE", id |-> id, ref |-> ref]

Track(width, start, end, layer) ==
    [kind |-> "TRACK", width |-> width.v, start |-> start, end |-> end,
     layer |-> layer]

Via(coord, layer_pair, size, drill) ==
    [kind |-> "VIA", coord |-> coord, layer_pair |-> layer_pair,
     size |-> size.v, drill |-> drill.v]

Segment(start, end, layer, width) ==
    [kind |-> "DRAWSEGMENT", start |-> start, end |-> end, layer |-> layer,
     width |-> width.v]

\* Board.add: every native board that adding the item can give
add(b, item) == AddResults(b, item)

\* Board.add_module: Module(ref, pos, board=self) puts itself on the board
add_module(b, id, ref) == add(b, Module(id, ref))

default_width(s) == Num((s.track_width * 1000) \div DEFAULT_UNIT_IUS)

default_via_size(s) == Num((s.via_size * 1000) \div DEFAULT_UNIT_IUS)

default_via_drill(s) ==
    IF s.via_drill > 0
    THEN Num((s.via_drill * 1000) \div DEFAULT_UNIT_IUS)
    ELSE Num(200)

\* the track that add_track_segment creates
add_track_segment_item(s, start, end, layer, width) ==
    Track(Or(width, default_width(s)), start, end, layer)

\* Board.add_track_segment: the results are a board and the items created
add_track_segment(r, s, start, end, layer, width) ==
    LET track == add_track_segment_item(s, start, end, layer, width)
    IN  {[b |-> b2, log |-> Append(r.log, track)] : b2 \in AddResults(r.b, track)}

\* add_track whose loop stops one segment early
RECURSIVE add_track_from_short(_, _, _, _, _, _)
add_track_from_short(r, s, coords, layer, width, n) ==
    IF n > Len(coords) - 2 THEN {r}
    ELSE UNION {add_track_from_short(r2, s, coords, layer, width, n + 1) :
                  r2 \in add_track_segment(r, s, coords[n], coords[n + 1],
                                          layer, width)}

RECURSIVE add_track_from(_, _, _, _, _, _)
add_track_from(r, s, coords, layer, width, n) ==
    IF n > Len(coords) - 1 THEN {r}
    ELSE UNION {add_track_from(r2, s, coords, layer, width, n + 1) :
                  r2 \in add_track_segment(r, s, coords[n], coords[n + 1],
                                          layer, width)}

\* Board.add_track: for n in range(len(coords) - 1)
add_track(b, s, coords, layer, width) ==
    add_track_from([b |-> b, log |-> <<>>], s, coords, layer, width, 1)

\* the via that add_via creates
add_via_item(s, coord, layer_pair, size, drill) ==
    Via(coord, layer_pair, Or(size, default_via_size(s)),
        Or(drill, default_via_drill(s)))

add_via(b, s, coord, layer_pair, size, drill) ==
    LET via == add_via_item(s, coord, layer_pair, size, drill)
    IN  {[b |-> b2, log |-> <<via>>] : b2 \in add(b, via)}

add_line(r, start, end, layer, width) ==
    LET line == Segment(start, end, layer, width)
    IN  {[b |-> b2, log |-> Append(r.log, line)] : b2 \in add(r.b, line)}

RECURSIVE add_polyline_from(_, _, _, _, _)
add_polyline_from(r, coords, layer, width, n) ==
    IF n > Len(coords) - 1 THEN {r}
    ELSE UNION {add_polyline_from(r2, coords, layer, width, n + 1) :
                  r2 \in add_line(r, coords[n], coords[n + 1], layer, width)}

add_polyline(b, coords, layer, width) ==
    add_polyline_from([b |-> b, log |-> <<>>], coords, layer, width, 1)

\* vias without the test of the item's type
RECURSIVE vias_from_all(_, _)
vias_from_all(tracks, n) ==
    IF n > Len(tracks) THEN <<>>
    ELSE <<Via_wrap(tracks[n])>> \o vias_from_all(tracks, n + 1)

RECURSIVE vias_from(_, _)
vias_from(tracks, n) ==
    IF n > Len(tracks) THEN <<>>
    ELSE IF tracks[n].kind = "VIA"
         THEN <<Via_wrap(tracks[n])>> \o vias_from(tracks, n + 1)
         ELSE vias_from(tracks, n + 1)

\* Board.vias, run to its end
vias(b) == vias_from(GetTracks(b), 1)

----------------------------------------------------------------------------
(* Calls on the Board *)

Call(op, arg, ret, log) == [op |-> op, arg |-> arg, ret |-> ret, log |-> log]

NItems(b) == Len(b.tracks) + Len(b.drawings)

\* the generators after a change of the module list
Dirty(gs) ==
    [i \in Iters |-> IF gs[i].st \in {"running", "done"}
                     THEN StaleIter ELSE gs[i]]

\* board.add_module(ref)
AddModule ==
    /\ nextId <= MaxModules
    /\ \E ref \in Refs : \E b2 \in add_module(obj, nextId, ref) :
          /\ obj' = b2
          /\ last' = Call("add_module", ref, Module_wrap(Module(nextId, ref)), <<>>)
    /\ nextId' = nextId + 1
    /\ its' = Dirty(its)
    /\ prev' = obj
    /\ UNCHANGED <<settings, nVias>>

\* board.modules[key]
GetItem ==
    /\ \E key \in Keys :
          last' = Call("getitem", key, ModuleList_getitem(obj, key), <<>>)
    /\ prev' = obj
    /\ UNCHANGED <<obj, settings, nextId, its, nVias>>

\* board.moduleByRef(ref)
ModuleByRef ==
    /\ \E ref \in Keys :
          last' = Call("moduleByRef", ref, moduleByRef(obj, ref), <<>>)
    /\ prev' = obj
    /\ UNCHANGED <<obj, settings, nextId, its, nVias>>

\* len(board.modules)
LenCall ==
    /\ last' = Call("len", None, ModuleList_len(obj), <<>>)
    /\ prev' = obj
    /\ UNCHANGED <<obj, settings, nextId, its, nVias>>

\* g = iter(board.modules)
IterCall(i) ==
    /\ its' = [its EXCEPT ![i] = ModuleList_iter]
    /\ last' = Call("iter", i, None, <<>>)
    /\ prev' = obj
    /\ UNCHANGED <<obj, settings, nextId, nVias>>

\* next(g)
NextCall(i) ==
    /\ its[i].st \in {"new", "running"}
    /\ its' = [its EXCEPT ![i] = ModuleList_iter_next(obj, its[i])]
    /\ last' = Call("next", i, None, <<>>)
    /\ prev' = obj
    /\ UNCHANGED <<obj, settings, nextId, nVias>>

\* board.add_via(coord, size=size, drill=drill)
AddVia(cap, coord, size, drill) ==
    /\ NItems(obj) + 1 <= cap
    /\ \E r \in add_via(obj, settings, coord, <<"B.Cu", "F.Cu">>, size, drill) :
          /\ obj' = r.b
          /\ last' = Call("add_via", [size |-> size, drill |-> drill],
                          Via_wrap(r.log[1]), r.log)
    /\ nVias' = nVias + 1
    /\ prev' = obj
    /\ UNCHANGED <<settings, nextId, its>>

\* board.add_track_segment(start, end, layer, width)
AddTrackSegment(cap, start, end, layer, width) ==
    /\ NItems(obj) + 1 <= cap
    /\ \E r \in add_track_segment([b |-> obj, log |-> <<>>], settings,
                                   start, end, layer, width) :
          /\ obj' = r.b
          /\ last' = Call("add_track_segment",
                          [coords |-> <<start, end>>, layer |-> layer,
                           width |-> width], r.log[1], r.log)
    /\ prev' = obj
    /\ UNCHANGED <<settings, nextId, its, nVias>>

\* board.add_track(coords, layer, width)
AddTrack(cap, coords, layer, width) ==
    /\ NItems(obj) + Len(coords) - 1 <= cap
    /\ \E r \in add_track(obj, settings, coords, layer, width) :
          /\ obj' = r.b
          /\ last' = Call("add_track",
                          [coords |-> coords, layer |-> layer, width |-> width],
                          None, r.log)
    /\ prev' = obj
    /\ UNCHANGED <<settings, nextId, its, nVias>>

\* board.add_polyline(coords, layer, width)
AddPolyline(cap, coords, layer, width) ==
    /\ NItems(obj) + Len(coords) - 1 <= cap
    /\ \E r \in add_polyline(obj, coords, layer, width) :
          /\ obj' = r.b
          /\ last' = Call("add_polyline",
                          [coords |-> coords, layer |-> layer, width |-> width],
                          None, r.log)
    /\ prev' = obj
    /\ UNCHANGED <<settings, nextId, its, nVias>>

\* list(board.vias)
ViasCall ==
    /\ last' = Call("vias", None, vias(obj), <<>>)
    /\ prev' = obj
    /\ UNCHANGED <<obj, settings, nextId, its, nVias>>

----------------------------------------------------------------------------
(* Specifications *)

Settings(w, vs, vd) == [track_width |-> w, via_size |-> vs, via_drill |-> vd]

\* Board(): a new native BOARD and the _ModuleList bound to it
Init ==
    /\ obj = BOARD
    /\ settings = Settings(250000, 600000, 400000)
    /\ nextId = 1
    /\ its = [i \in Iters |-> NoIter]
    /\ nVias = 0
    /\ last = Call("Board", None, None, <<>>)
    /\ prev = BOARD

\* the modules of a board, with a few items of the other kinds around them
Next ==
    \/ AddModule
    \/ GetItem
    \/ ModuleByRef
    \/ LenCall
    \/ \E i \in Iters : IterCall(i)
    \/ \E i \in Iters : NextCall(i)
    \/ AddVia(MaxItems, 1, None, None)
    \/ AddTrackSegment(MaxItems, 1, 2, "F.Cu", None)
    \/ AddPolyline(MaxItems, <<1, 2>>, "F.SilkS", Num(150))

Spec == Init /\ [][Next]_vars

Widths == {None, Num(0), Num(300)}
ViaSizes == {None, Num(0), Num(800)}
ViaDrills == {None, Num(0), Num(300)}
EngineViaDrills == {-1, 0, 400000}
Coords == UNION {[1..n -> Points] : n \in 0..MaxCoords}

InitTracks ==
    /\ obj = BOARD
    /\ settings = Settings(250000, 600000, 400000)
    /\ nextId = 1
    /\ its = [i \in Iters |-> NoIter]
    /\ nVias = 0
    /\ last = Call("Board", None, None, <<>>)
    /\ prev = BOARD

\* the track polylines and graphic polylines of a board
NextTracks ==
    \/ \E p, q \in Points, width \in Widths :
          AddTrackSegment(MaxTrackItems, p, q, "B.Cu", width)
    \/ \E coords \in Coords, layer \in CuLayers, width \in Widths :
          AddTrack(MaxTrackItems, coords, layer, width)
    \/ \E coords \in Coords, width \in {Num(0), Num(150)} :
          AddPolyline(MaxTrackItems, coords, "F.SilkS", width)

SpecTracks == InitTracks /\ [][NextTracks]_vars

\* the engine's current via size and via drill are the user's selection
InitVias ==
    /\ obj = BOARD
    /\ settings \in {Settings(250000, 600000, vd) : vd \in EngineViaDrills}
    /\ nextId = 1
    /\ its = [i \in Iters |-> NoIter]
    /\ nVias = 0
    /\ last = Call("Board", None, None, <<>>)
    /\ prev = BOARD

\* the vias of a board, among its track segments
NextVias ==
    \/ \E size \in ViaSizes, drill \in ViaDrills :
          AddVia(MaxViaItems, 1, size, drill)
    \/ \E p, q \in Points :
          AddTrackSegment(MaxViaItems, p, q, "F.Cu", None)
    \/ ViasCall

SpecVias == InitVias /\ [][NextVias]_vars

----------------------------------------------------------------------------
(* Properties of Board.modules and Board.moduleByRef, under Spec *)

RefsOn(b) == {GetModules(b)[i].ref : i \in 1..Len(GetModules(b))}
IdsOn(b) == {GetModules(b)[i].id : i \in 1..Len(GetModules(b))}
Wrapped(mods) == [k \in 1..Len(mods) |-> Module_wrap(mods[k])]

\* C1: modules[R] with a reference R that no module of the board has raises
\* KeyError, returns no value, and leaves the board as it was.
C1_LookupAbsentRaises ==
    (last.op = "getitem" /\ last.arg \notin RefsOn(prev)) =>
        /\ last.ret.raised = "KeyError"
        /\ last.ret.value = None
        /\ obj = prev

C1_Witness ==
    /\ last.op = "getitem"
    /\ last.arg \notin RefsOn(prev)
    /\ Len(GetModules(prev)) >= 2

\* C2: modules[R] with a reference R that a module of the board has returns,
\* without raising, a Module that wraps a module of the board whose reference
\* is R, and leaves the board as it was.
C2_LookupPresentReturns ==
    (last.op = "getitem" /\ last.arg \in RefsOn(prev)) =>
        /\ last.ret.raised = ""
        /\ last.ret.value.type = "Module"
        /\ reference(last.ret.value) = last.arg
        /\ last.ret.value.native_obj.id \in IdsOn(prev)
        /\ obj = prev

C2_Witness ==
    /\ last.op = "getitem"
    /\ last.arg \in RefsOn(prev)
    /\ Len(GetModules(prev)) >= 2
    /\ GetModules(prev)[1].ref # last.arg

\* C3: len(board.modules) is the number of modules a full run of the
\* generator yields on the same board: a finished run has yielded as many
\* modules as len gives now, and a len call returns that number.
C3_LenIsIterationCount ==
    \A i \in Iters : its[i].st = "done" =>
        /\ Len(its[i].out) = ModuleList_len(obj)
        /\ last.op = "len" => last.ret = Len(its[i].out)

C3_Witness ==
    /\ last.op = "len"
    /\ its[1].st = "done"
    /\ Len(its[1].out) = MaxModules
    /\ Cardinality(RefsOn(obj)) < MaxModules

\* C4 as stated: a full run yields the modules in the order in which they
\* were added to the board (the identities count the additions).
C4_YieldsInAdditionOrder ==
    \A i \in Iters : its[i].st = "done" =>
        /\ Len(its[i].out) = nextId - 1
        /\ \A k \in 1..Len(its[i].out) : its[i].out[k].native_obj.id = k

\* C4 amended: a full run yields Module objects (not references), one for
\* each module of the board and none twice, in the order of the native
\* board's module list.
C4_YieldsInListOrder ==
    \A i \in Iters : its[i].st = "done" =>
        /\ its[i].out = Wrapped(GetModules(obj))
        /\ \A k \in 1..Len(its[i].out) : its[i].out[k].type = "Module"
        /\ {its[i].out[k].native_obj.id : k \in 1..Len(its[i].out)}
              = 1..(nextId - 1)
        /\ Len(its[i].out) = nextId - 1

C4_Witness ==
    /\ its[1].st = "done"
    /\ Len(its[1].out) = MaxModules
    /\ its[1].out[1].native_obj.id # 1

\* C5: two full runs over a board that did not change yield the same
\* modules in the same order, whatever lookups, len calls and steps of the
\* other run come between; starting and stepping a generator do not change
\* the board.
C5_IterationStable ==
    /\ \A i, j \in Iters :
          (its[i].st = "done" /\ its[j].st = "done") => its[i].out = its[j].out
    /\ last.op \in {"iter", "next"} => obj = prev

C5_Witness ==
    /\ its[1].st = "done"
    /\ its[2].st = "done"
    /\ Len(its[1].out) >= 2
    /\ last.op \in {"getitem", "len"}

\* C6: while no module has been added, len(board.modules) is 0 and a
\* generator yields nothing, also after vias, tracks and drawings were added.
C6_EmptyBoard ==
    nextId = 1 =>
        /\ ModuleList_len(obj) = 0
        /\ last.op = "len" => last.ret = 0
        /\ \A i \in Iters : its[i].st # "running" /\ its[i].out = <<>>

C6_Witness ==
    /\ nextId = 1
    /\ NItems(obj) > 0
    /\ last.op = "len"
    /\ its[1].st = "done"

\* C7: moduleByRef(ref) never raises; it returns None when no module has the
\* reference, and otherwise the module that modules[ref] returns; modules[ref]
\* in turn returns what moduleByRef returns whenever it does not raise, and
\* raises exactly when moduleByRef returns None.
C7_ModuleByRefAgrees ==
    /\ last.op = "moduleByRef" =>
          /\ last.ret.raised = ""
          /\ last.arg \notin RefsOn(prev) => last.ret.value = None
          /\ last.arg \in RefsOn(prev) =>
                /\ ModuleList_getitem(prev, last.arg).raised = ""
                /\ last.ret.value = ModuleList_getitem(prev, last.arg).value
          /\ obj = prev
    /\ last.op = "getitem" =>
          /\ last.ret.value = moduleByRef(prev, last.arg).value
          /\ (last.ret.raised = "KeyError") = (last.ret.value = None)

C7_Witness ==
    /\ last.op = "moduleByRef"
    /\ last.arg \in RefsOn(prev)
    /\ last.ret.value # None
    /\ Keys \ RefsOn(prev) # {"Q1"}

----------------------------------------------------------------------------
(* Properties of add_via and vias, under SpecVias *)

\* C8 as stated: the via made by add_via carries the caller's size and drill
\* whenever they are not None, 0 included; with None it carries the board's
\* current via size and via drill, the drill being 0.2 mm when the engine's
\* current via drill is not positive.
C8_ViaCarriesGivenValues ==
    last.op = "add_via" =>
        LET via == last.ret.native_obj
            size == last.arg.size
            drill == last.arg.drill
        IN  /\ size # None => via.size = size.v
            /\ size = None =>
                  via.size = (settings.via_size * 1000) \div DEFAULT_UNIT_IUS
            /\ drill # None => via.drill = drill.v
            /\ (drill = None /\ settings.via_drill <= 0) => via.drill = 200
            /\ (drill = None /\ settings.via_drill > 0) =>
                  via.drill = (settings.via_drill * 1000) \div DEFAULT_UNIT_IUS

\* C10: Board.vias yields the vias of the track list, each once and in the
\* order of the list, and no track segment; it yields as many items as
\* add_via was called, and adding a track segment does not change what it
\* yields.
IsVia(t) == t.kind = "VIA"

C10_ViasYieldsVias ==
    /\ Len(vias(obj)) = nVias
    /\ last.op = "vias" =>
          /\ Len(last.ret) = Len(SelectSeq(GetTracks(obj), IsVia))
          /\ \A k \in 1..Len(last.ret) :
                /\ last.ret[k].type = "Via"
                /\ last.ret[k].native_obj = SelectSeq(GetTracks(obj), IsVia)[k]
          /\ Len(last.ret) = nVias
          /\ obj = prev
    /\ last.op = "add_track_segment" => vias(obj) = vias(prev)

C10_Witness ==
    /\ last.op = "vias"
    /\ Len(last.ret) = 2
    /\ Len(GetTracks(obj)) = 3
    /\ GetTracks(obj)[2].kind = "TRACK"

----------------------------------------------------------------------------
(* Properties of add_track and add_polyline, under SpecTracks *)

Count(list, x) == Cardinality({i \in 1..Len(list) : list[i] = x})
Range(list) == {list[i] : i \in 1..Len(list)}

\* `list` is `before` with every item of `items` put in once more
RegisteredOnce(list, before, items) ==
    /\ Len(list) = Len(before) + Len(items)
    /\ \A x \in Range(list) \cup Range(items) :
          Count(list, x) = Count(before, x) + Count(items, x)

\* the items made by one call run from coords[i] to coords[i+1], in order
Chained(items, coords, kind, layer) ==
    /\ Len(items) = (IF Len(coords) = 0 THEN 0 ELSE Len(coords) - 1)
    /\ \A i \in 1..Len(items) :
          /\ items[i].kind = kind
          /\ items[i].start = coords[i]
          /\ items[i].end = coords[i + 1]
          /\ items[i].layer = layer
    /\ \A i \in 1..(Len(items) - 1) : items[i].end = items[i + 1].start

PolylineAsGiven ==
    last.op = "add_polyline" =>
        /\ Chained(last.log, last.arg.coords, "DRAWSEGMENT", last.arg.layer)
        /\ \A i \in 1..Len(last.log) : last.log[i].width = last.arg.width.v
        /\ RegisteredOnce(obj.drawings, prev.drawings, last.log)
        /\ obj.tracks = prev.tracks /\ obj.modules = prev.modules

\* C9 as stated: add_track(coords) adds max(0, len(coords) - 1) track
\* segments, the i-th from coords[i] to coords[i+1], all on the given layer
\* and with the given width (the board's default width when it is None),
\* each registered on the board once; add_polyline does so with graphic lines.
C9_TrackAsGiven ==
    /\ last.op = "add_track" =>
          /\ Chained(last.log, last.arg.coords, "TRACK", last.arg.layer)
          /\ \A i \in 1..Len(last.log) :
                last.log[i].width =
                    IF last.arg.width = None
                    THEN (settings.track_width * 1000) \div DEFAULT_UNIT_IUS
                    ELSE last.arg.width.v
          /\ RegisteredOnce(obj.tracks, prev.tracks, last.log)
          /\ obj.drawings = prev.drawings /\ obj.modules = prev.modules
    /\ PolylineAsGiven

\* C9 amended: as above, but the segments of add_track carry the given width
\* only when it is neither None nor 0; otherwise they carry the board's
\* default track width.
C9_TrackAsResolved ==
    /\ last.op = "add_track" =>
          /\ Chained(last.log, last.arg.coords, "TRACK", last.arg.layer)
          /\ \A i \in 1..Len(last.log) :
                last.log[i].width =
                    IF last.arg.width \in {None, Num(0)}
                    THEN (settings.track_width * 1000) \div DEFAULT_UNIT_IUS
                    ELSE last.arg.width.v
          /\ RegisteredOnce(obj.tracks, prev.tracks, last.log)
          /\ obj.drawings = prev.drawings /\ obj.modules = prev.modules
    /\ PolylineAsGiven

C9_Witness ==
    /\ last.op = "add_track"
    /\ Len(last.arg.coords) = 3
    /\ Len(last.log) = 2
    /\ last.arg.width = Num(300)
    /\ Len(obj.tracks) = 2
    /\ obj.tracks[1] = last.log[2]

====
